---- MODULE Spec2Model ----
(***************************************************************************)
(* vite-elysia-forge: the dev-server plugin (elysiaPlugin.configureServer) *)
(* as a state machine: the module loader and the watcher's change handler, *)
(* the importer walk over Vite's module graph, the request middleware with *)
(* its bounded body collection, and the ws-mode backend process; beside    *)
(* it the CLI's build commands and the production server (startServer).    *)
(***************************************************************************)
EXTENDS Integers, Sequences, FiniteSets, TLC

\* ------------------------------------------------------------------ bounds
MaxNodes    == 3   \* module-graph nodes considered by the walk
MaxEdges    == 3   \* importer edges in an enumerated graph
MaxChanges  == 2   \* watcher "change" events per run
MaxRequests == 1   \* requests per run
MaxChunks   == 2   \* chunks of an enumerated request stream

\* -------------------------------------------------------------- text, bytes
\* A string is a sequence of one-character strings.
StartsWith(s, p) == Len(s) >= Len(p) /\ SubSeq(s, 1, Len(p)) = p

Unset == "unset"      \* a string not set yet

API_LITERAL == <<"/", "a", "p", "i">>
V1_PREFIX   == <<"/", "v", "1">>

\* Bytes are kept run-length encoded: a buffer is a sequence of runs
\* <<byte, count>> with count >= 1, standing for count copies of byte.
RECURSIVE BufferLength(_)
BufferLength(buf) ==
    IF buf = <<>> THEN 0 ELSE Head(buf)[2] + BufferLength(Tail(buf))

\* Buffer.concat(chunks): the chunks' bytes, in order, nothing decoded.
RECURSIVE BufferConcat(_)
BufferConcat(chunks) ==
    IF chunks = <<>> THEN <<>> ELSE Head(chunks) \o BufferConcat(Tail(chunks))

\* The bytes U+FFFD is encoded as in UTF-8.
ReplacementChar == << <<239, 1>>, <<191, 1>>, <<189, 1>> >>

RECURSIVE Repeat(_, _)
Repeat(s, n) == IF n = 0 THEN <<>> ELSE s \o Repeat(s, n - 1)

\* Decoding bytes as UTF-8 text and encoding the text again: ASCII bytes are
\* kept, and every byte that is not part of a valid sequence (here: every
\* byte >= 128, the buffers of the model holding no valid multi-byte
\* sequence) becomes U+FFFD.
RECURSIVE Utf8RoundTrip(_)
Utf8RoundTrip(buf) ==
    IF buf = <<>> THEN <<>>
    ELSE LET run == Head(buf) IN
         (IF run[1] < 128 THEN <<run>> ELSE Repeat(ReplacementChar, run[2]))
            \o Utf8RoundTrip(Tail(buf))

\* ------------------------------------------------------------ plugin options
\* A value that may be undefined: an option left out, a missing req.url.
Given(v)   == [given |-> TRUE, v |-> v]
Omitted(z) == [given |-> FALSE, v |-> z]

\* Destructuring defaults: an omitted option takes its default.
Default(o, d) == IF o.given THEN o.v ELSE d

DEFAULT_MAX_BODY_SIZE == 1024 * 1024

Config_Falsy(o) ==
    [ ws            |-> Default(o.ws, FALSE),
      apiPrefix     |-> Default(o.apiPrefix, API_LITERAL),
      MAX_BODY_SIZE |-> IF o.MAX_BODY_SIZE.given /\ o.MAX_BODY_SIZE.v # 0
                        THEN o.MAX_BODY_SIZE.v
                        ELSE DEFAULT_MAX_BODY_SIZE ]

Config(o) ==
    [ ws            |-> Default(o.ws, FALSE),
      apiPrefix     |-> Default(o.apiPrefix, API_LITERAL),
      MAX_BODY_SIZE |-> Default(o.MAX_BODY_SIZE, DEFAULT_MAX_BODY_SIZE) ]

\* ------------------------------------------------------------- module graph
\* A graph node is a ModuleNode object; Vite gives a node with a resolved id
\* an id no other node has, and a file-only node the id null (NoId).
Nodes == 1 .. MaxNodes
NoId  == 0
EntryNode == 1          \* the node getModuleByUrl(apiModulePath) returns

ENTRY_FILE == "api.ts"
Files == {ENTRY_FILE, "dep.ts", "util.ts", "unloaded.ts"}

\* A JavaScript Set is kept as the sequence of its elements in insertion
\* order, no element twice: the order [...set] and for..of visit them in.
SetOf(q) == {q[k] : k \in DOMAIN q}

\* Every Set of nodes there is: every sequence of distinct nodes.
NodeSets ==
    UNION { {q \in [1 .. k -> Nodes] : \A a, b \in 1 .. k : a # b => q[a] # q[b]} :
              k \in 0 .. MaxNodes }

\* moduleGraph.getModulesByFile(file): the Set of the nodes of that file,
\* empty (in Vite: undefined) for a file without a node.
getModulesByFile(g, file) == g.byFile[file]

\* The walk of the change handler: queue.shift(), skip a node without an id
\* or with an id already seen, stop at the entry module's id, otherwise push
\* the node's importers. `expanded` lists the nodes whose importers were
\* pushed, in order.
RECURSIVE Walk_NoSeen(_, _, _, _, _)
Walk_NoSeen(g, entryId, queue, seen, expanded) ==
    IF queue = <<>> \/ Len(expanded) > MaxNodes
    THEN [isDependency |-> FALSE, seen |-> seen, expanded |-> expanded]
    ELSE LET node == Head(queue)
             rest == Tail(queue)
         IN IF g.id[node] = NoId
            THEN Walk_NoSeen(g, entryId, rest, seen, expanded)
            ELSE IF g.id[node] = entryId
                 THEN [isDependency |-> TRUE, seen |-> seen, expanded |-> expanded]
                 ELSE Walk_NoSeen(g, entryId,
                                  rest \o g.importers[node],
                                  seen,
                                  Append(expanded, node))

RECURSIVE Walk(_, _, _, _, _)
Walk(g, entryId, queue, seen, expanded) ==
    IF queue = <<>>
    THEN [isDependency |-> FALSE, seen |-> seen, expanded |-> expanded]
    ELSE LET node == Head(queue)
             rest == Tail(queue)
         IN IF g.id[node] = NoId \/ g.id[node] \in seen
            THEN Walk(g, entryId, rest, seen, expanded)
            ELSE IF g.id[node] = entryId
                 THEN [isDependency |-> TRUE,
                       seen |-> seen \cup {g.id[node]},
                       expanded |-> expanded]
                 ELSE Walk(g, entryId,
                           rest \o g.importers[node],
                           seen \cup {g.id[node]},
                           Append(expanded, node))

\* The change handler up to `if (!isDependency) return`: no entry module, or
\* no node for the file, ends it before the walk.
NotWalked == [isDependency |-> FALSE, seen |-> {}, expanded |-> <<>>]

isDependency_Always(g, file) ==
    [isDependency |-> TRUE, seen |-> {}, expanded |-> <<>>]

RECURSIVE ImportersOfAll(_, _)
ImportersOfAll(g, q) ==
    IF q = <<>> THEN <<>>
    ELSE g.importers[Head(q)] \o ImportersOfAll(g, Tail(q))

isDependency_ImportersOnly(g, file) ==
    IF ~g.hasEntry THEN NotWalked
    ELSE LET changedMods == getModulesByFile(g, file)
         IN IF changedMods = <<>> THEN NotWalked
            ELSE Walk(g, g.id[EntryNode],
                      ImportersOfAll(g, changedMods), {}, <<>>)

isDependency(g, file) ==
    IF ~g.hasEntry THEN NotWalked
    ELSE LET changedMods == getModulesByFile(g, file)
         IN IF changedMods = <<>> THEN NotWalked
            ELSE Walk(g, g.id[EntryNode], changedMods, {}, <<>>)

\* server.moduleGraph as the change handler reads it: the id of each node,
\* the Set of nodes of each file, the importers Set of each node, and
\* whether getModuleByUrl(apiModulePath) finds the entry module.
GraphOf(ids, byFile, importers, hasEntry) ==
    [ id        |-> ids,
      byFile    |-> byFile,
      importers |-> importers,
      hasEntry  |-> hasEntry ]

\* Every graph of the bounds: the entry node has an id and the entry file,
\* every node has one file (api.ts or dep.ts), there are at most MaxEdges
\* importer edges, and every Set is taken in every insertion order.
RECURSIVE ImportersWithin(_, _)
ImportersWithin(n, edges) ==
    IF n = 0 THEN {<<>>}
    ELSE UNION { {Append(imp, q) : imp \in ImportersWithin(n - 1, edges - Len(q))} :
                   q \in {x \in NodeSets : Len(x) <= edges} }

ByFileOf(p) ==
    [f \in Files |-> IF f = ENTRY_FILE THEN p[1]
                     ELSE IF f = "dep.ts" THEN p[2] ELSE <<>>]

AllGraphs(hasEntry) ==
    { GraphOf(ids, ByFileOf(p), imp, hasEntry) :
        ids \in {f \in [Nodes -> Nodes \cup {NoId}] :
                    /\ f[EntryNode] = EntryNode
                    /\ \A n \in Nodes : f[n] \in {n, NoId}},
        p \in { q \in NodeSets \X NodeSets :
                  /\ EntryNode \in SetOf(q[1])
                  /\ SetOf(q[1]) \cup SetOf(q[2]) = Nodes
                  /\ SetOf(q[1]) \cap SetOf(q[2]) = {} },
        imp \in ImportersWithin(MaxNodes, MaxEdges) }

\* -------------------------------------------------------------------- state
VARIABLES
    opts,            \* the options object given to elysiaPlugin
    graph,           \* server.moduleGraph
    source,          \* content version of the API module's sources on disk
    phase,           \* configureServer: "loading" | "ready" | "failed"
    api,             \* `let api`: the active handler reference
    loads,           \* number of server.ssrLoadModule invocations so far
    chg,             \* the change handler's invocations, in arrival order
    req,             \* the middleware's invocations, in arrival order
    backendProcess,  \* `let backendProcess`: the tracked child, or NoProc
    restarting,      \* `let restarting`
    procs,           \* every child process spawned, in spawn order
    closed,          \* server.httpServer has emitted "close"
    wk,              \* the walk applied to one (graph, file) input
    bld,             \* one run of the CLI's build()
    srv              \* one request to the production server's fetch

vars == <<opts, graph, source, phase, api, loads, chg, req,
          backendProcess, restarting, procs, closed, wk, bld, srv>>

cfg == Config(opts)

NoHandler == [obj |-> 0, ver |-> 0]
NoProc    == 0

\* The handler object a load returns: a fresh object (obj is the number of
\* the ssrLoadModule invocation) evaluated from the sources of version ver.
Handler(loadId, ver) == [obj |-> loadId, ver |-> ver]

OptionSets ==
    [ ws            : {Omitted(FALSE), Given(TRUE), Given(FALSE)},
      apiPrefix     : {Omitted(<<>>), Given(API_LITERAL), Given(V1_PREFIX)},
      MAX_BODY_SIZE : {Omitted(0), Given(0), Given(2)} ]

\* The graphs of the runs that are not about the walk itself: api.ts (node 1)
\* imports dep.ts (node 2), nothing imports util.ts (the other nodes), and
\* unloaded.ts has no node; once with the entry module in the graph and once
\* with getModuleByUrl finding none.
SampleGraphs ==
    { GraphOf([n \in Nodes |-> n],
              [f \in Files |->
                 IF f = ENTRY_FILE THEN <<EntryNode>>
                 ELSE IF f = "dep.ts" THEN <<2>>
                 ELSE IF f = "util.ts" THEN [k \in 1 .. MaxNodes - 2 |-> k + 2]
                 ELSE <<>>],
              [n \in Nodes |-> IF n = 2 THEN <<EntryNode>> ELSE <<>>],
              h) : h \in BOOLEAN }

WkIdle == [file |-> Unset, done |-> FALSE, out |-> NotWalked, started |-> FALSE]

\* build() not called: the CLI is a program of its own, apart from the plugin.
BuildIdle ==
    [ command |-> Unset, skipVite |-> FALSE, skipServer |-> FALSE,
      entryExists |-> FALSE, viteStatus |-> Given(0),
      compileStatus |-> Given(0), bundle |-> Unset, exit |-> Unset,
      outputDir |-> FALSE, tempFile |-> FALSE,
      pc |-> "idle", steps |-> <<>>, exits |-> <<>>, outcome |-> "running" ]

\* startServer not called: the production server is a program of its own.
NoAnswer == [by |-> Unset, status |-> 0, file |-> <<>>]
ServeIdle ==
    [ version |-> Unset, apiPrefix |-> Omitted(<<>>), routes |-> {},
      files |-> {}, reqs |-> <<>> ]

ToolsIdle == bld = BuildIdle /\ srv = ServeIdle

InitWith(O, G) ==
    /\ opts \in O
    /\ graph \in G
    /\ source = 1
    /\ phase = "loading"      \* `let api = await loadApi()` is pending
    /\ api = NoHandler
    /\ loads = 1
    /\ chg = <<>>
    /\ req = <<>>
    /\ backendProcess = NoProc
    /\ restarting = FALSE
    /\ procs = <<>>
    /\ closed = FALSE

\* --------------------------------------------------------- backend process
NewProc == [state |-> "running", signaled |-> FALSE, exitCode |-> Unset,
            exitLogged |-> FALSE]

\* backendProcess.kill("SIGTERM")
Kill(ps, p) == [ps EXCEPT ![p].signaled = TRUE]

\* startBackend(): a synchronous body (no await inside), so it runs as one
\* step: nothing in non-ws mode or while restarting; otherwise kill and
\* forget the tracked process, spawn the next one and track it. The result
\* is the pair of backendProcess and procs afterwards.
startBackend_NoKill(ws, isRestarting, bp, ps) ==
    IF ~ws \/ isRestarting THEN [backendProcess |-> bp, procs |-> ps]
    ELSE [backendProcess |-> Len(ps) + 1, procs |-> Append(ps, NewProc)]

startBackend(ws, isRestarting, bp, ps) ==
    IF ~ws \/ isRestarting THEN [backendProcess |-> bp, procs |-> ps]
    ELSE LET killed == IF bp # NoProc THEN Kill(ps, bp) ELSE ps
         IN [backendProcess |-> Len(killed) + 1,
             procs |-> Append(killed, NewProc)]

\* backendProcess.on("exit", (code) => ...) of child p: a non-zero code is
\* logged, and the tracked reference is cleared whichever child exited. The
\* code is null when a signal ended the child, the plugin's SIGTERM or a
\* signal from anywhere else.
ExitCodes(proc) == {"null", "0", "1"}

ProcExit_Respawn(p, code) ==
    /\ p \in DOMAIN procs
    /\ procs[p].state = "running"
    /\ code \in ExitCodes(procs[p])
    /\ LET exited == [procs EXCEPT ![p].state = "exited",
                                   ![p].exitCode = code,
                                   ![p].exitLogged = (code \notin {"null", "0"})]
       IN IF code \notin {"null", "0"}
          THEN /\ procs' = Append(exited, NewProc)
               /\ backendProcess' = Len(procs) + 1
          ELSE /\ procs' = exited
               /\ backendProcess' = NoProc
    /\ UNCHANGED <<opts, graph, source, phase, api, loads, chg, req,
                   restarting, closed, wk, bld, srv>>

ProcExit(p, code) ==
    /\ p \in DOMAIN procs
    /\ procs[p].state = "running"
    /\ code \in ExitCodes(procs[p])
    /\ procs' = [procs EXCEPT ![p].state = "exited",
                              ![p].exitCode = code,
                              ![p].exitLogged = (code \notin {"null", "0"})]
    /\ backendProcess' = NoProc
    /\ UNCHANGED <<opts, graph, source, phase, api, loads, chg, req,
                   restarting, closed, wk, bld, srv>>

\* server.httpServer.once("close", ...), registered in ws mode only.
HostClose ==
    /\ cfg.ws
    /\ phase = "ready"
    /\ ~closed
    /\ closed' = TRUE
    /\ IF backendProcess # NoProc
       THEN /\ procs' = Kill(procs, backendProcess)
            /\ backendProcess' = NoProc
       ELSE UNCHANGED <<procs, backendProcess>>
    /\ UNCHANGED <<opts, graph, source, phase, api, loads, chg, req,
                   restarting, wk, bld, srv>>

\* What configureServer has registered. Both registrations come after
\* `let api = await loadApi()`: they are made once the initial load has
\* resolved and never if it rejects; the middleware is not registered in ws
\* mode (`if (ws) return`).
WatcherInstalled    == phase = "ready"

MiddlewareInstalled_Always == phase = "ready"

MiddlewareInstalled == phase = "ready" /\ ~cfg.ws

\* ------------------------------------------------------ startup and reload
\* configureServer: the first loadApi() resolves; in ws mode the backend is
\* started; the watcher and (outside ws mode) the middleware are installed.
StartupResolve ==
    /\ phase = "loading"
    /\ phase' = "ready"
    /\ api' = Handler(1, source)
    /\ LET sb == startBackend(cfg.ws, restarting, backendProcess, procs)
       IN /\ backendProcess' = sb.backendProcess
          /\ procs' = sb.procs
    /\ UNCHANGED <<opts, graph, source, loads, chg, req, restarting, closed, wk, bld, srv>>

\* The first loadApi() rejects: configureServer rejects, nothing is installed.
StartupReject ==
    /\ phase = "loading"
    /\ phase' = "failed"
    /\ UNCHANGED <<opts, graph, source, api, loads, chg, req,
                   backendProcess, restarting, procs, closed, wk, bld, srv>>

\* What the change handler has done with a change of `file` when it returns
\* or suspends: nothing if the walk does not find the entry module
\* (`if (!isDependency) return`), else invalidateModule(entryMod) and the
\* call of loadApi(), the n+1-th, which loads the sources as they are.
NoChange ==
    [pc |-> "done", file |-> Unset, affected |-> FALSE,
     invalidated |-> FALSE, loadId |-> 0, loadVer |-> 0,
     settled |-> "none", log |-> "none", restarted |-> FALSE]

ChangeRecord(g, file, n, src) ==
    IF isDependency(g, file).isDependency
    THEN [NoChange EXCEPT !.file = file,
                          !.pc = "loading",
                          !.affected = TRUE,
                          !.invalidated = TRUE,
                          !.loadId = n + 1,
                          !.loadVer = src]
    ELSE [NoChange EXCEPT !.file = file]

\* watcher "change" event: the handler is called and suspends at once on
\* `await server.moduleGraph.getModuleByUrl(apiModulePath)`, before it has
\* read the graph. `edited` tells whether the change altered the sources.
Change(file, edited) ==
    /\ WatcherInstalled
    /\ ~closed
    /\ Len(chg) < MaxChanges
    /\ source' = IF edited THEN source + 1 ELSE source
    /\ chg' = Append(chg, [NoChange EXCEPT !.file = file, !.pc = "looking"])
    /\ UNCHANGED <<opts, graph, phase, api, loads, req,
                   backendProcess, restarting, procs, closed, wk, bld, srv>>

\* getModuleByUrl resolves: the handler runs up to its next await, that is
\* the walk and, if the entry module is affected, invalidateModule(entryMod)
\* and the call of loadApi(), on which the handler suspends. Nothing here
\* looks at whether the host server has closed meanwhile.
LookupResolve_LoadFirst(i) ==
    /\ i \in DOMAIN chg
    /\ chg[i].pc = "looking"
    /\ LET c == ChangeRecord(graph, chg[i].file, loads, source)
       IN /\ chg' = [chg EXCEPT ![i] = c]
          /\ loads' = loads + 1
    /\ UNCHANGED <<opts, graph, source, phase, api, req,
                   backendProcess, restarting, procs, closed, wk, bld, srv>>

LookupResolve(i) ==
    /\ i \in DOMAIN chg
    /\ chg[i].pc = "looking"
    /\ LET c == ChangeRecord(graph, chg[i].file, loads, source)
       IN /\ chg' = [chg EXCEPT ![i] = c]
          /\ loads' = IF c.affected THEN loads + 1 ELSE loads
    /\ UNCHANGED <<opts, graph, source, phase, api, req,
                   backendProcess, restarting, procs, closed, wk, bld, srv>>

\* loadApi() resolves: the reference is replaced, "Reloaded" is logged and,
\* in ws mode, startBackend() runs.
LoadResolve_WaitsIdle(i) ==
    /\ i \in DOMAIN chg
    /\ chg[i].pc = "loading"
    /\ \A j \in DOMAIN req : req[j].pc \in {"done", "passed"}
    /\ api' = Handler(chg[i].loadId, chg[i].loadVer)
    /\ LET sb == startBackend(cfg.ws, restarting, backendProcess, procs)
       IN /\ backendProcess' = sb.backendProcess
          /\ procs' = sb.procs
    /\ chg' = [chg EXCEPT ![i].pc = "done", ![i].settled = "resolved",
                          ![i].log = "reloaded", ![i].restarted = cfg.ws]
    /\ UNCHANGED <<opts, graph, source, phase, loads, req,
                   restarting, closed, wk, bld, srv>>

LoadResolve(i) ==
    /\ i \in DOMAIN chg
    /\ chg[i].pc = "loading"
    /\ api' = Handler(chg[i].loadId, chg[i].loadVer)
    /\ LET sb == startBackend(cfg.ws, restarting, backendProcess, procs)
       IN /\ backendProcess' = sb.backendProcess
          /\ procs' = sb.procs
    /\ chg' = [chg EXCEPT ![i].pc = "done", ![i].settled = "resolved",
                          ![i].log = "reloaded", ![i].restarted = cfg.ws]
    /\ UNCHANGED <<opts, graph, source, phase, loads, req,
                   restarting, closed, wk, bld, srv>>

\* loadApi() rejects: the catch block logs the failure; `api` is not assigned.
LoadReject_Clear(i) ==
    /\ i \in DOMAIN chg
    /\ chg[i].pc = "loading"
    /\ api' = NoHandler
    /\ chg' = [chg EXCEPT ![i].pc = "done", ![i].settled = "rejected",
                          ![i].log = "failed"]
    /\ UNCHANGED <<opts, graph, source, phase, loads, req,
                   backendProcess, restarting, procs, closed, wk, bld, srv>>

LoadReject(i) ==
    /\ i \in DOMAIN chg
    /\ chg[i].pc = "loading"
    /\ chg' = [chg EXCEPT ![i].pc = "done", ![i].settled = "rejected",
                          ![i].log = "failed"]
    /\ UNCHANGED <<opts, graph, source, phase, api, loads, req,
                   backendProcess, restarting, procs, closed, wk, bld, srv>>

\* ------------------------------------------------------- request middleware
STATUS_DEFAULT       == 200   \* http.ServerResponse's statusCode before any write
STATUS_TOO_LARGE     == 413
STATUS_SERVER_ERROR  == 500

NoBody     == [text |-> "", bytes |-> <<>>]
NoResponse == [status |-> 0, headers |-> <<>>, body |-> <<>>]
NoRequest  == [url |-> <<>>, method |-> Unset, body |-> <<>>]

\* `!req.url?.startsWith("/api")` negated: the requests the middleware takes.
InScope(url) == url.given /\ StartsWith(url.v, API_LITERAL)

\* `req.method !== "GET" && req.method !== "HEAD"`
CarriesBody_GetOnly(method) == method # "GET"

CarriesBody(method) == method \notin {"GET", "HEAD"}

\* `totalSize > MAX_BODY_SIZE`
TooLarge_Inclusive(totalSize, max) == totalSize >= max

TooLarge(totalSize, max) == totalSize > max

\* `body = Buffer.concat(chunks)`, handed to `new Request` as it is.
CollectBody_ToString(chunks) == Utf8RoundTrip(BufferConcat(chunks))

CollectBody(chunks) == BufferConcat(chunks)

\* What `api.handle(request)` resolves with. The module is the user's. The
\* one of the plugin's tests (apiV1, apiV2) does not look at the request:
\* status 200 + ver, the headers content-type and x-api naming the version,
\* the body "v" and the version digit. The headers are listed as
\* response.headers.forEach visits them: sorted by name, one visit per name,
\* except set-cookie, visited once per value. Header values are numbers;
\* TEXT_PLAIN stands for "text/plain;charset=UTF-8".
PING_URL   == API_LITERAL \o <<"/", "p", "i", "n", "g">>
TEXT_PLAIN == 0

HandlerResponse(h, request) ==
    [ status  |-> STATUS_DEFAULT + h.ver,
      headers |-> << <<"content-type", TEXT_PLAIN>>, <<"x-api", h.ver>> >>,
      body    |-> << <<118, 1>>, <<48 + h.ver, 1>> >> ]

\* res.setHeader(key, value): the header of that name is set, replacing any
\* value it had.
SetHeader(hs, key, value) == {x \in hs : x[1] # key} \cup {<<key, value>>}

\* response.headers.forEach((value, key) => res.setHeader(key, value))
RECURSIVE CopyHeaders(_, _)
CopyHeaders(hs, visits) ==
    IF visits = <<>> THEN hs
    ELSE CopyHeaders(SetHeader(hs, Head(visits)[1], Head(visits)[2]), Tail(visits))

\* `new Request(url, {method, headers, body})` followed by
\* `api.handle(request)`: the reference `api` is read here, once.
Invoke_FirstLoaded(r, body) ==
    [r EXCEPT !.pc = "handling",
              !.handler = Handler(1, 1),
              !.calls = r.calls + 1,
              !.request = [url |-> r.url.v, method |-> r.method, body |-> body]]

Invoke(r, body) ==
    [r EXCEPT !.pc = "handling",
              !.handler = api,
              !.calls = r.calls + 1,
              !.request = [url |-> r.url.v, method |-> r.method, body |-> body]]

\* `res.statusCode = s; res.end(text)`
EndWith(r, s, text) ==
    [r EXCEPT !.pc = "done",
              !.res = [r.res EXCEPT !.statusCode = s,
                                    !.body = [text |-> text, bytes |-> <<>>],
                                    !.ended = TRUE]]

NewReq(url, method, stream) ==
    [ url |-> url, method |-> method, stream |-> stream,
      pc |-> "new", read |-> 0, totalSize |-> 0, chunks |-> <<>>,
      dispatched |-> api,     \* the active reference as the middleware is called
      handler |-> NoHandler, calls |-> 0, request |-> NoRequest,
      response |-> NoResponse,
      res |-> [statusCode |-> STATUS_DEFAULT, headers |-> {}, body |-> NoBody,
               ended |-> FALSE],
      nextCalls |-> 0, logged |-> FALSE ]

\* The middleware is called (it is installed outside ws mode only): a request
\* out of scope goes to next(); a GET or HEAD request is handed to the
\* handler at once; any other starts reading its stream.
Arrive_NoReturn(limit, U, M, S) ==
    /\ MiddlewareInstalled
    /\ Len(req) < limit
    /\ \E url \in U, method \in M, stream \in S :
         LET r0 == NewReq(url, method, stream)
             r  == IF ~InScope(url) THEN [r0 EXCEPT !.nextCalls = 1] ELSE r0
         IN req' = Append(req,
               IF CarriesBody(method)
               THEN [r EXCEPT !.pc = "collecting"]
               ELSE Invoke(r, <<>>))
    /\ UNCHANGED <<opts, graph, source, phase, api, loads, chg,
                   backendProcess, restarting, procs, closed, wk, bld, srv>>

Arrive(limit, U, M, S) ==
    /\ MiddlewareInstalled
    /\ Len(req) < limit
    /\ \E url \in U, method \in M, stream \in S :
         LET r == NewReq(url, method, stream)
         IN req' = Append(req,
               IF ~InScope(url)
               THEN [r EXCEPT !.pc = "passed", !.nextCalls = 1]
               ELSE IF CarriesBody(method)
                    THEN [r EXCEPT !.pc = "collecting"]
                    ELSE Invoke(r, <<>>))
    /\ UNCHANGED <<opts, graph, source, phase, api, loads, chg,
                   backendProcess, restarting, procs, closed, wk, bld, srv>>

\* One turn of `for await (const chunk of req)`: the next chunk is counted
\* and, unless the total is over the bound (413, return), kept; a stream
\* error is caught (500); at the end of the stream the body is built and the
\* handler invoked.
ReadNext_NoBound(i) ==
    /\ i \in DOMAIN req
    /\ req[i].pc = "collecting"
    /\ LET r == req[i]
           k == r.read + 1
       IN req' = [req EXCEPT ![i] =
            IF k <= Len(r.stream.chunks)
            THEN [r EXCEPT !.read = k,
                           !.totalSize = r.totalSize + BufferLength(r.stream.chunks[k]),
                           !.chunks = Append(r.chunks, r.stream.chunks[k])]
            ELSE IF r.stream.err
                 THEN [EndWith(r, STATUS_SERVER_ERROR, "Internal Server Error")
                         EXCEPT !.logged = TRUE]
                 ELSE Invoke(r, CollectBody(r.chunks))]
    /\ UNCHANGED <<opts, graph, source, phase, api, loads, chg,
                   backendProcess, restarting, procs, closed, wk, bld, srv>>

ReadNext_Drain(i) ==
    /\ i \in DOMAIN req
    /\ req[i].pc = "collecting"
    /\ LET r == req[i]
           k == r.read + 1
       IN req' = [req EXCEPT ![i] =
            IF k <= Len(r.stream.chunks)
            THEN LET total == r.totalSize + BufferLength(r.stream.chunks[k])
                     counted == [r EXCEPT !.read = k, !.totalSize = total]
                 IN IF TooLarge(total, cfg.MAX_BODY_SIZE)
                    THEN counted
                    ELSE [counted EXCEPT !.chunks = Append(r.chunks, r.stream.chunks[k])]
            ELSE IF TooLarge(r.totalSize, cfg.MAX_BODY_SIZE)
                 THEN EndWith(r, STATUS_TOO_LARGE, "Payload Too Large")
                 ELSE IF r.stream.err
                      THEN [EndWith(r, STATUS_SERVER_ERROR, "Internal Server Error")
                              EXCEPT !.logged = TRUE]
                      ELSE Invoke(r, CollectBody(r.chunks))]
    /\ UNCHANGED <<opts, graph, source, phase, api, loads, chg,
                   backendProcess, restarting, procs, closed, wk, bld, srv>>

ReadNext(i) ==
    /\ i \in DOMAIN req
    /\ req[i].pc = "collecting"
    /\ LET r == req[i]
           k == r.read + 1
       IN req' = [req EXCEPT ![i] =
            IF k <= Len(r.stream.chunks)
            THEN LET total == r.totalSize + BufferLength(r.stream.chunks[k])
                     counted == [r EXCEPT !.read = k, !.totalSize = total]
                 IN IF TooLarge(total, cfg.MAX_BODY_SIZE)
                    THEN EndWith(counted, STATUS_TOO_LARGE, "Payload Too Large")
                    ELSE [counted EXCEPT !.chunks = Append(r.chunks, r.stream.chunks[k])]
            ELSE IF r.stream.err
                 THEN [EndWith(r, STATUS_SERVER_ERROR, "Internal Server Error")
                         EXCEPT !.logged = TRUE]
                 ELSE Invoke(r, CollectBody(r.chunks))]
    /\ UNCHANGED <<opts, graph, source, phase, api, loads, chg,
                   backendProcess, restarting, procs, closed, wk, bld, srv>>

\* `await api.handle(request)` resolves with `response`: the status and the
\* headers are copied, and the handler suspends on `await response.text()`.
\* Answers(i) is what the handler the call was made on resolves with when
\* the module is the one of the plugin's tests.
Answers(i) ==
    IF i \in DOMAIN req
    THEN {HandlerResponse(req[i].handler, req[i].request)}
    ELSE {}

HandleResolve_Current(i, given) ==
    /\ i \in DOMAIN req
    /\ req[i].pc = "handling"
    /\ LET response == HandlerResponse(api, req[i].request)
       IN req' = [req EXCEPT ![i].pc = "reading",
                             ![i].response = response,
                             ![i].res.statusCode = response.status,
                             ![i].res.headers = CopyHeaders(req[i].res.headers, response.headers)]
    /\ UNCHANGED <<opts, graph, source, phase, api, loads, chg,
                   backendProcess, restarting, procs, closed, wk, bld, srv>>

HandleResolve_EndEarly(i, response) ==
    /\ i \in DOMAIN req
    /\ req[i].pc = "handling"
    /\ req' = [req EXCEPT ![i].pc = "reading",
                          ![i].response = response,
                          ![i].res.statusCode = response.status,
                          ![i].res.headers = CopyHeaders(req[i].res.headers, response.headers),
                          ![i].res.ended = TRUE]
    /\ UNCHANGED <<opts, graph, source, phase, api, loads, chg,
                   backendProcess, restarting, procs, closed, wk, bld, srv>>

HandleResolve(i, response) ==
    /\ i \in DOMAIN req
    /\ req[i].pc = "handling"
    /\ req' = [req EXCEPT ![i].pc = "reading",
                          ![i].response = response,
                          ![i].res.statusCode = response.status,
                          ![i].res.headers = CopyHeaders(req[i].res.headers, response.headers)]
    /\ UNCHANGED <<opts, graph, source, phase, api, loads, chg,
                   backendProcess, restarting, procs, closed, wk, bld, srv>>

\* `await api.handle(request)` rejects: logged, 500.
HandleReject_Escapes(i) ==
    /\ i \in DOMAIN req
    /\ req[i].pc = "handling"
    /\ req' = [req EXCEPT ![i].pc = "done"]
    /\ UNCHANGED <<opts, graph, source, phase, api, loads, chg,
                   backendProcess, restarting, procs, closed, wk, bld, srv>>

HandleReject(i) ==
    /\ i \in DOMAIN req
    /\ req[i].pc = "handling"
    /\ req' = [req EXCEPT ![i] =
                 [EndWith(req[i], STATUS_SERVER_ERROR, "Internal Server Error")
                    EXCEPT !.logged = TRUE]]
    /\ UNCHANGED <<opts, graph, source, phase, api, loads, chg,
                   backendProcess, restarting, procs, closed, wk, bld, srv>>

\* `await response.text()` resolves and `res.end(responseBody)` writes the
\* text: the body's bytes decoded as UTF-8 and encoded again.
TextResolve(i) ==
    /\ i \in DOMAIN req
    /\ req[i].pc = "reading"
    /\ req' = [req EXCEPT ![i].pc = "done",
                          ![i].res.body = [text |-> "",
                                           bytes |-> Utf8RoundTrip(req[i].response.body)],
                          ![i].res.ended = TRUE]
    /\ UNCHANGED <<opts, graph, source, phase, api, loads, chg,
                   backendProcess, restarting, procs, closed, wk, bld, srv>>

\* `await response.text()` rejects (the body stream of the handler's Response
\* fails): the catch block logs, sets 500 over the status already copied and
\* ends with its own text; the headers copied stay.
TextReject(i) ==
    /\ i \in DOMAIN req
    /\ req[i].pc = "reading"
    /\ req' = [req EXCEPT ![i] =
                 [EndWith(req[i], STATUS_SERVER_ERROR, "Internal Server Error")
                    EXCEPT !.logged = TRUE]]
    /\ UNCHANGED <<opts, graph, source, phase, api, loads, chg,
                   backendProcess, restarting, procs, closed, wk, bld, srv>>

\* ------------------------------------------------------------------ inputs
Chunk1   == << <<49, 1>> >>                      \* "1"
ChunkBin == << <<211, 1>>, <<235, 1>> >>         \* 0xD3 0xEB, not UTF-8
ChunkMiB == << <<97, DEFAULT_MAX_BODY_SIZE>> >>  \* "a" repeated 1 MiB times

API_URL   == API_LITERAL \o <<"/", "u">>
V1_URL    == V1_PREFIX \o <<"/", "u">>
APIX_URL  == API_LITERAL \o <<"x">>
SHORT_URL == <<"/", "a", "p">>

Stream(chunks, err) == [chunks |-> chunks, err |-> err]

\* ---------------------------------------------------------- specifications
\* The plugin as a whole: reloads, requests and the backend process.
MainOptions ==
    [ ws            : {Omitted(FALSE), Given(TRUE)},
      apiPrefix     : {Omitted(<<>>)},
      MAX_BODY_SIZE : {Given(2)} ]
MainGraphs  == {g \in SampleGraphs : g.hasEntry}
MainChanges == {<<"dep.ts", TRUE>>, <<"dep.ts", FALSE>>,
                <<"util.ts", FALSE>>, <<"unloaded.ts", FALSE>>}
MainUrls    == {Given(API_URL)}
MainMethods == {"GET", "POST"}
MainStreams == {Stream(<<ChunkBin>>, FALSE)}

Init == InitWith(MainOptions, MainGraphs) /\ wk = WkIdle /\ ToolsIdle

Next ==
    \/ StartupResolve
    \/ StartupReject
    \/ \E c \in MainChanges : Change(c[1], c[2])
    \/ \E i \in 1 .. MaxChanges : LookupResolve(i)
    \/ \E i \in 1 .. MaxChanges : LoadResolve(i)
    \/ \E i \in 1 .. MaxChanges : LoadReject(i)
    \/ \E p \in 1 .. MaxChanges + 1, code \in {"null", "0", "1"} : ProcExit(p, code)
    \/ HostClose
    \/ Arrive(MaxRequests, MainUrls, MainMethods, MainStreams)
    \/ \E i \in 1 .. MaxRequests : ReadNext(i)
    \/ \E i \in 1 .. MaxRequests : \E response \in Answers(i) : HandleResolve(i, response)
    \/ \E i \in 1 .. MaxRequests : HandleReject(i)
    \/ \E i \in 1 .. MaxRequests : TextResolve(i)
    \/ \E i \in 1 .. MaxRequests : TextReject(i)

Spec == Init /\ [][Next]_vars

\* The middleware alone, on every request of the bounds, one at a time.
BridgeOptions ==
    [ ws            : {Omitted(FALSE), Given(FALSE)},
      apiPrefix     : {Omitted(<<>>), Given(API_LITERAL), Given(V1_PREFIX)},
      MAX_BODY_SIZE : {Omitted(0), Given(0), Given(2)} ]
BridgeUrls    == {Given(API_URL), Given(PING_URL), Given(V1_URL), Given(APIX_URL),
                  Given(SHORT_URL), Omitted(<<>>)}
BridgeMethods == {"GET", "HEAD", "POST"}

ChunkSeqs(n) == UNION {[1 .. k -> {Chunk1, ChunkBin}] : k \in 0 .. n}
BridgeStreams ==
    {Stream(c, e) : c \in ChunkSeqs(MaxChunks) \cup {<<ChunkMiB>>, <<ChunkMiB, Chunk1>>},
                    e \in BOOLEAN}

\* Answers of other API modules: a body that is not UTF-8 text, and a
\* response holding two Set-Cookie headers.
BridgeResponses ==
    { [status |-> STATUS_DEFAULT, headers |-> <<>>, body |-> ChunkBin],
      [status |-> STATUS_DEFAULT,
       headers |-> << <<"set-cookie", 1>>, <<"set-cookie", 2>> >>,
       body |-> Chunk1] }

InitBridge == InitWith(BridgeOptions, MainGraphs) /\ wk = WkIdle /\ ToolsIdle

NextBridge ==
    \/ StartupResolve
    \/ Arrive(1, BridgeUrls, BridgeMethods, BridgeStreams)
    \/ \E i \in {1} : ReadNext(i)
    \/ \E i \in {1} : \E response \in Answers(i) \cup BridgeResponses : HandleResolve(i, response)
    \/ \E i \in {1} : HandleReject(i)
    \/ \E i \in {1} : TextResolve(i)
    \/ \E i \in {1} : TextReject(i)

SpecBridge == InitBridge /\ [][NextBridge]_vars

\* The walk alone, on every graph and changed file of the bounds.
InitWalk ==
    /\ InitWith({[ws |-> Omitted(FALSE), apiPrefix |-> Omitted(<<>>),
                  MAX_BODY_SIZE |-> Omitted(0)]},
                AllGraphs(TRUE) \cup SampleGraphs)
    /\ \E f \in Files : wk = [WkIdle EXCEPT !.file = f]
    /\ ToolsIdle

\* The change handler's walk on the input: entry lookup, file lookup, walk,
\* and whether the handler goes on to invalidate the entry module and load.
WalkApply ==
    /\ ~wk.done
    /\ wk' = [wk EXCEPT !.done = TRUE,
                        !.out = isDependency(graph, wk.file),
                        !.started = ChangeRecord(graph, wk.file, loads, source).invalidated]
    /\ UNCHANGED <<opts, graph, source, phase, api, loads, chg, req,
                   backendProcess, restarting, procs, closed, bld, srv>>

NextWalk == WalkApply

SpecWalk == InitWalk /\ [][NextWalk]_vars

\* The middleware serving requests one after another: the next request
\* arrives when the one before it is over.
SerialOptions ==
    {[ws |-> Omitted(FALSE), apiPrefix |-> Omitted(<<>>), MAX_BODY_SIZE |-> Given(2)]}
SerialStreams == {Stream(<<Chunk1>>, e) : e \in BOOLEAN}
SerialLimit   == MaxRequests + 1

InitSerial == InitWith(SerialOptions, MainGraphs) /\ wk = WkIdle /\ ToolsIdle

ArriveSerial ==
    /\ \A j \in DOMAIN req : req[j].pc \in {"done", "passed"}
    /\ Arrive(SerialLimit, MainUrls, MainMethods, SerialStreams)

NextSerial ==
    \/ StartupResolve
    \/ ArriveSerial
    \/ \E i \in 1 .. SerialLimit : ReadNext(i)
    \/ \E i \in 1 .. SerialLimit : \E response \in Answers(i) : HandleResolve(i, response)
    \/ \E i \in 1 .. SerialLimit : HandleReject(i)
    \/ \E i \in 1 .. SerialLimit : TextResolve(i)
    \/ \E i \in 1 .. SerialLimit : TextReject(i)

SpecSerial == InitSerial /\ [][NextSerial]_vars

\* The middleware and the reloads with a handler call that never settles:
\* the call made for the first request stays pending for ever.
HungLimit   == MaxRequests + 1
HungChanges == {<<"dep.ts", TRUE>>}

InitHung == InitWith(SerialOptions, MainGraphs) /\ wk = WkIdle /\ ToolsIdle

NextHung ==
    \/ StartupResolve
    \/ \E c \in HungChanges : Change(c[1], c[2])
    \/ \E i \in 1 .. MaxChanges : LookupResolve(i)
    \/ \E i \in 1 .. MaxChanges : LoadResolve(i)
    \/ Arrive(HungLimit, MainUrls, MainMethods, MainStreams)
    \/ \E i \in 1 .. HungLimit : ReadNext(i)
    \/ \E i \in 2 .. HungLimit : \E response \in Answers(i) : HandleResolve(i, response)
    \/ \E i \in 2 .. HungLimit : TextResolve(i)

SpecHung == InitHung /\ [][NextHung]_vars

\* The middleware and the reloads with an API module that keeps state in
\* memory: the module counts the requests it has answered and names the
\* count in its answer (x-count). Each evaluation of the module starts its
\* own count, so the count belongs to the handler object; the sources are
\* never edited.
AnsweredBy(h, rs) ==
    Cardinality({j \in DOMAIN rs : rs[j].handler = h /\ rs[j].response # NoResponse})

CountingResponse(h, rs) ==
    [ status  |-> STATUS_DEFAULT,
      headers |-> << <<"x-count", AnsweredBy(h, rs) + 1>> >>,
      body    |-> Chunk1 ]

CountingAnswers(i) ==
    IF i \in DOMAIN req THEN {CountingResponse(req[i].handler, req)} ELSE {}

CountingChanges == {<<"dep.ts", FALSE>>}

InitCounting == InitWith(SerialOptions, MainGraphs) /\ wk = WkIdle /\ ToolsIdle

NextCounting ==
    \/ StartupResolve
    \/ \E c \in CountingChanges : Change(c[1], c[2])
    \/ \E i \in 1 .. MaxChanges : LookupResolve(i)
    \/ \E i \in 1 .. MaxChanges : LoadResolve(i)
    \/ Arrive(HungLimit, MainUrls, MainMethods, MainStreams)
    \/ \E i \in 1 .. HungLimit : ReadNext(i)
    \/ \E i \in 1 .. HungLimit : \E response \in CountingAnswers(i) : HandleResolve(i, response)
    \/ \E i \in 1 .. HungLimit : TextResolve(i)

SpecCounting == InitCounting /\ [][NextCounting]_vars

\* ------------------------------------------------------------- CLI: build()
\* process.exit(code). The runtime's process.exit ends the process where it
\* is called: nothing after the call runs, no catch and no finally included.
\* The CLI's tests replace process.exit by a function that throws, and there
\* the call is an exception that unwinds through catch and finally.
EXIT_FAILURE == 1

ProcessExit(b, code) ==
    [b EXCEPT !.exits = Append(@, code),
              !.pc = "ended",
              !.outcome = IF b.exit = "terminates" THEN "exited" ELSE "threw"]

\* `viteBuild.status || 1`, `compile.status || 1`: a null status and the
\* status 0 give 1.
StatusOr1(st) == IF st.given /\ st.v # 0 THEN st.v ELSE EXIT_FAILURE

\* `viteBuild.status !== 0`, `compile.status !== 0`: true of a null status.
StatusNotZero(st) == ~st.given \/ st.v # 0

\* The finally block: the temp entry is unlinked, .output is removed.
Cleanup(b) == [b EXCEPT !.tempFile = FALSE, !.outputDir = FALSE]

\* build() returns: the CLI command build is over; buildCompile, which has
\* awaited it, goes on to compile.
Returned(b) ==
    IF b.command = "buildCompile" THEN [b EXCEPT !.pc = "compile"]
    ELSE [b EXCEPT !.pc = "ended", !.outcome = "returned"]

\* The entry-file check: existsSync(absoluteApiEntry) unless skipServer.
CheckEntry ==
    /\ bld.pc = "check"
    /\ LET b == [bld EXCEPT !.steps = Append(@, "check")] IN
       bld' = IF ~b.skipServer /\ ~b.entryExists
              THEN ProcessExit(b, EXIT_FAILURE)
              ELSE [b EXCEPT !.pc = "vite"]
    /\ UNCHANGED <<opts, graph, source, phase, api, loads, chg, req,
                   backendProcess, restarting, procs, closed, wk, srv>>

ViteBuild_Continue ==
    /\ bld.pc = "vite"
    /\ LET b == IF bld.skipVite THEN bld
                ELSE [bld EXCEPT !.steps = Append(@, "vite")] IN
       bld' = IF b.skipServer
              THEN Returned(b)
              ELSE [b EXCEPT !.pc = "temp"]
    /\ UNCHANGED <<opts, graph, source, phase, api, loads, chg, req,
                   backendProcess, restarting, procs, closed, wk, srv>>

\* The frontend build, `bun x vite build` run to its end by spawnSync, and
\* the `if (skipServer) return` that follows it.
ViteBuild ==
    /\ bld.pc = "vite"
    /\ LET b == IF bld.skipVite THEN bld
                ELSE [bld EXCEPT !.steps = Append(@, "vite")] IN
       bld' = IF ~b.skipVite /\ StatusNotZero(b.viteStatus)
              THEN ProcessExit(b, StatusOr1(b.viteStatus))
              ELSE IF b.skipServer
              THEN Returned(b)
              ELSE [b EXCEPT !.pc = "temp"]
    /\ UNCHANGED <<opts, graph, source, phase, api, loads, chg, req,
                   backendProcess, restarting, procs, closed, wk, srv>>

\* .output is made if missing and .output/.temp-prod.ts is written.
WriteTemp ==
    /\ bld.pc = "temp"
    /\ bld' = [bld EXCEPT !.steps = Append(@, "temp"),
                          !.outputDir = TRUE,
                          !.tempFile = TRUE,
                          !.pc = "bundle"]
    /\ UNCHANGED <<opts, graph, source, phase, api, loads, chg, req,
                   backendProcess, restarting, procs, closed, wk, srv>>

\* `await Bun.build({...})` is called inside the try block.
BundleStart ==
    /\ bld.pc = "bundle"
    /\ bld' = [bld EXCEPT !.steps = Append(@, "bundle"), !.pc = "bundling"]
    /\ UNCHANGED <<opts, graph, source, phase, api, loads, chg, req,
                   backendProcess, restarting, procs, closed, wk, srv>>

\* Bun.build settles. A result without success calls process.exit(1) in the
\* try block; a rejection, or the exception of a throwing process.exit,
\* enters the catch block, which calls process.exit(1); the finally block
\* runs when control leaves the statement, which a process.exit that ends
\* the process never lets it do.
BundleSettle ==
    /\ bld.pc = "bundling"
    /\ LET inTry   == IF bld.bundle = "failure"
                      THEN ProcessExit(bld, EXIT_FAILURE) ELSE bld
           caught  == bld.bundle = "throws"
                      \/ (bld.bundle = "failure" /\ bld.exit = "throws")
           inCatch == IF caught /\ inTry.outcome # "exited"
                      THEN ProcessExit(inTry, EXIT_FAILURE) ELSE inTry
       IN  bld' = IF inCatch.outcome = "exited" THEN inCatch
                  ELSE IF inCatch.outcome = "threw" THEN Cleanup(inCatch)
                  ELSE Returned(Cleanup(inCatch))
    /\ UNCHANGED <<opts, graph, source, phase, api, loads, chg, req,
                   backendProcess, restarting, procs, closed, wk, srv>>

\* buildCompile(), once the build() it awaits has returned: `bun build
\* --compile` is run to its end by spawnSync, and a status other than 0 is
\* the exit code (1 for a null status).
Compile ==
    /\ bld.pc = "compile"
    /\ LET b == [bld EXCEPT !.steps = Append(@, "compile")] IN
       bld' = IF StatusNotZero(b.compileStatus)
              THEN ProcessExit(b, StatusOr1(b.compileStatus))
              ELSE [b EXCEPT !.pc = "ended", !.outcome = "returned"]
    /\ UNCHANGED <<opts, graph, source, phase, api, loads, chg, req,
                   backendProcess, restarting, procs, closed, wk, srv>>

\* The CLI's two build commands, on every option, file-system and tool
\* outcome of the bounds.
BuildInputs ==
    { [BuildIdle EXCEPT !.command = cmd, !.skipVite = sv, !.skipServer = ss,
                         !.entryExists = ee, !.viteStatus = vs,
                         !.compileStatus = cs,
                         !.bundle = bo, !.exit = ex, !.outputDir = od,
                         !.pc = "check"] :
        cmd \in {"build", "buildCompile"},
        sv \in BOOLEAN, ss \in BOOLEAN, ee \in BOOLEAN,
        vs \in {Given(0), Given(1), Given(2), Omitted(0)},
        cs \in {Given(0), Given(3), Omitted(0)},
        bo \in {"success", "failure", "throws"},
        ex \in {"terminates", "throws"},
        od \in BOOLEAN }

InitBuild ==
    /\ InitWith({[ws |-> Omitted(FALSE), apiPrefix |-> Omitted(<<>>),
                  MAX_BODY_SIZE |-> Omitted(0)]}, MainGraphs)
    /\ wk = WkIdle
    /\ srv = ServeIdle
    /\ bld \in BuildInputs

NextBuild ==
    \/ CheckEntry
    \/ ViteBuild
    \/ WriteTemp
    \/ BundleStart
    \/ BundleSettle
    \/ Compile

SpecBuild == InitBuild /\ [][NextBuild]_vars

\* ------------------------------------------- production server: startServer
\* production.ts holds startServer twice: once on Bun.serve with a fetch
\* function, once on an Elysia app that mounts the api and adds a catch-all
\* route. A run of the server is a run of one of the two.
INDEX_HTML == <<"/", "i", "n", "d", "e", "x", ".", "h", "t", "m", "l">>
ROOT_PATH  == <<"/">>
DIST       == <<"/", "d", "i", "s", "t">>

STATUS_NOT_FOUND == 404
STATUS_FORBIDDEN == 403

\* `options.apiPrefix || "/api"`: an omitted and an empty prefix give "/api".
ServerPrefix(o) == IF o.given /\ o.v # <<>> THEN o.v ELSE API_LITERAL

\* The api on a request: the answer of the route registered for the method
\* and path, and Elysia's 404 where there is none.
ApiHandle(routes, method, pathname) ==
    IF <<method, pathname>> \in routes
    THEN [by |-> "api", status |-> STATUS_DEFAULT, file |-> <<>>]
    ELSE [by |-> "api", status |-> STATUS_NOT_FOUND, file |-> <<>>]

\* path.join normalises what it joins: a run of "/" becomes one "/".
RECURSIVE CollapseSlashes(_)
CollapseSlashes(p) ==
    IF Len(p) < 2 THEN p
    ELSE IF p[1] = "/" /\ p[2] = "/" THEN CollapseSlashes(Tail(p))
    ELSE <<p[1]>> \o CollapseSlashes(Tail(p))

\* `path`, then the part of join(dist, path without its leading "/") under
\* dist. url.pathname comes out of the URL parser, which has resolved every
\* dot segment and kept empty segments: join has only those to normalise.
UnderDist(pathname) ==
    CollapseSlashes(IF pathname = ROOT_PATH THEN INDEX_HTML ELSE pathname)

FilePath(pathname) == DIST \o UnderDist(pathname)

\* The file if it exists, index.html for a GET, 404 otherwise. `files` are
\* the files of dist, named by their path under it.
StaticOrFallback(files, method, pathname) ==
    IF \E f \in files : DIST \o f = FilePath(pathname)
    THEN [by |-> "static", status |-> STATUS_DEFAULT, file |-> UnderDist(pathname)]
    ELSE IF method = "GET"
    THEN [by |-> "fallback", status |-> STATUS_DEFAULT, file |-> INDEX_HTML]
    ELSE [by |-> "server", status |-> STATUS_NOT_FOUND, file |-> <<>>]

\* A request on which the server waits for `await file.exists()`.
Waiting(method, target) ==
    [method |-> method, target |-> target, pc |-> "exists", res |-> NoAnswer]

Answer(method, target, res) ==
    [method |-> method, target |-> target, pc |-> "done", res |-> res]

\* The fetch function given to Bun.serve, up to its return or first await:
\* a path under the prefix is handed to the api, whose answer is the
\* function's; any other waits for file.exists().
BunServeFetch(s, method, target) ==
    IF StartsWith(target, ServerPrefix(s.apiPrefix))
    THEN Answer(method, target, ApiHandle(s.routes, method, target))
    ELSE Waiting(method, target)

\* The Elysia app, up to the answer or the first await: `app.use(api)` adds
\* the api's routes to the app, and the router takes a route registered for
\* the method and path before the wildcard route "/*" of `app.all`.
ElysiaRoute(s, method, target) ==
    IF <<method, target>> \in s.routes
    THEN Answer(method, target, ApiHandle(s.routes, method, target))
    ELSE IF StartsWith(target, ServerPrefix(s.apiPrefix))
    THEN Answer(method, target,
                [by |-> "server", status |-> STATUS_NOT_FOUND, file |-> <<>>])
    ELSE IF ~StartsWith(FilePath(target), DIST)
    THEN Answer(method, target,
                [by |-> "server", status |-> STATUS_FORBIDDEN, file |-> <<>>])
    ELSE Waiting(method, target)

\* A request is taken. Requests are taken while earlier ones wait.
Fetch(limit, M, T) ==
    /\ srv.version # Unset
    /\ Len(srv.reqs) < limit
    /\ \E method \in M, target \in T :
          srv' = [srv EXCEPT !.reqs = Append(@,
                     IF srv.version = "Bun.serve"
                     THEN BunServeFetch(srv, method, target)
                     ELSE ElysiaRoute(srv, method, target))]
    /\ UNCHANGED <<opts, graph, source, phase, api, loads, chg, req,
                   backendProcess, restarting, procs, closed, wk, bld>>

\* `await file.exists()` resolves and the request is answered.
ExistsResolve(i) ==
    /\ i \in DOMAIN srv.reqs
    /\ srv.reqs[i].pc = "exists"
    /\ srv' = [srv EXCEPT !.reqs[i].pc = "done",
                          !.reqs[i].res = StaticOrFallback(srv.files,
                                              srv.reqs[i].method,
                                              srv.reqs[i].target)]
    /\ UNCHANGED <<opts, graph, source, phase, api, loads, chg, req,
                   backendProcess, restarting, procs, closed, wk, bld>>

\* The server alone, on every prefix, api, dist content and request of the
\* bounds.
HEALTH_PATH  == <<"/", "h">>
SLASHES_PATH == <<"/", "/", "h">>
ASSET_PATH   == <<"/", "a", ".", "j", "s">>

ServeInputs ==
    { [ServeIdle EXCEPT !.version = v, !.apiPrefix = p, !.routes = r,
                         !.files = f] :
        v \in {"Bun.serve", "Elysia"},
        p \in {Omitted(<<>>), Given(<<>>), Given(API_LITERAL), Given(V1_PREFIX)},
        r \in SUBSET {<<"GET", API_URL>>, <<"GET", HEALTH_PATH>>},
        f \in SUBSET {ASSET_PATH, HEALTH_PATH, INDEX_HTML} }
ServeMethods == {"GET", "POST"}
ServeTargets == {ROOT_PATH, API_URL, APIX_URL, V1_URL, HEALTH_PATH,
                 SLASHES_PATH, ASSET_PATH}
ServeLimit   == MaxRequests + 1

InitServe ==
    /\ InitWith({[ws |-> Omitted(FALSE), apiPrefix |-> Omitted(<<>>),
                  MAX_BODY_SIZE |-> Omitted(0)]}, MainGraphs)
    /\ wk = WkIdle
    /\ bld = BuildIdle
    /\ srv \in ServeInputs

NextServe ==
    \/ Fetch(ServeLimit, ServeMethods, ServeTargets)
    \/ \E i \in 1 .. ServeLimit : ExistsResolve(i)

SpecServe == InitServe /\ [][NextServe]_vars

\* ------------------------------------------------------------------ claims
\* What the claims speak of.
CallsOf(rq, j) == IF j \in DOMAIN rq THEN rq[j].calls ELSE 0

RECURSIVE StreamTotal(_)
StreamTotal(chunks) ==
    IF chunks = <<>> THEN 0
    ELSE BufferLength(chunks[Len(chunks)]) + StreamTotal(SubSeq(chunks, 1, Len(chunks) - 1))

\* The chunks' runs in arrival order, built from the last chunk backwards.
RECURSIVE ChunksInOrder(_, _)
ChunksInOrder(chunks, n) ==
    IF n = 0 THEN <<>> ELSE ChunksInOrder(chunks, n - 1) \o chunks[n]

Reached(j) == req[j].pc \in {"handling", "reading", "done"} /\ req[j].calls > 0

\* C1: when loadApi() rejects during a reload, the step leaves the active
\* handler reference as it was and logs the failure, and every handler call
\* that starts is made on the handler that is the active reference.
C1_FailedReloadKeepsHandler ==
    [][ /\ \A i \in DOMAIN chg :
             (chg[i].settled = "none" /\ chg'[i].settled = "rejected")
                => (api' = api /\ chg'[i].log = "failed")
        /\ \A j \in DOMAIN req' :
             (req'[j].calls > CallsOf(req, j)) => req'[j].handler = api'
      ]_vars

\* A reload has failed after a successful one, and a request was then served
\* by the handler that stayed active.
C1_Witness ==
    \E i \in DOMAIN chg, j \in DOMAIN req :
        /\ chg[i].settled = "rejected"
        /\ \A k \in DOMAIN chg : chg[k].pc = "done"
        /\ api # NoHandler
        /\ req[j].pc = "done" /\ req[j].handler = api
        /\ req[j].res.statusCode = STATUS_DEFAULT + api.ver

\* C2: at most one loader invocation is in progress at any time.
LoadsInProgress ==
    Cardinality({i \in DOMAIN chg : chg[i].pc = "loading"})
        + (IF phase = "loading" THEN 1 ELSE 0)

C2_ReloadsSerialized == LoadsInProgress <= 1

\* C3: a request uses one handler for its whole life: the reference is read
\* once, at the call, and the response is the one of the handler the call
\* was made on, whatever the active reference is by then.
C3_InFlightKeepsHandler ==
    [][ \A j \in DOMAIN req :
          /\ req[j].calls > 0 =>
                (req'[j].handler = req[j].handler /\ req'[j].calls = req[j].calls)
          /\ (req[j].pc = "handling" /\ req'[j].pc = "reading") =>
                /\ req'[j].response = HandlerResponse(req[j].handler, req[j].request)
                /\ req'[j].res.statusCode = STATUS_DEFAULT + req[j].handler.ver
      ]_vars

\* A request answered by the handler it was started on, after a reload had
\* replaced the active reference by a handler of another version.
C3_Witness ==
    \E j \in DOMAIN req :
        /\ req[j].pc = "done"
        /\ req[j].response # NoResponse
        /\ req[j].handler.ver # api.ver
        /\ req[j].res.statusCode = STATUS_DEFAULT + req[j].handler.ver

\* C4: a request the middleware takes, with a body-carrying method and
\* chunks totalling more than MAX_BODY_SIZE, never reaches the handler and,
\* once ended, has status 413 and body "Payload Too Large".
OverBound(j) ==
    /\ InScope(req[j].url)
    /\ CarriesBody(req[j].method)
    /\ StreamTotal(req[j].stream.chunks) > cfg.MAX_BODY_SIZE

C4_TooLargeIs413 ==
    \A j \in DOMAIN req :
        OverBound(j) =>
            /\ req[j].calls = 0
            /\ req[j].pc \in {"collecting", "done"}
            /\ req[j].pc = "done" =>
                  /\ req[j].res.ended
                  /\ req[j].res.statusCode = STATUS_TOO_LARGE
                  /\ req[j].res.body = [text |-> "Payload Too Large", bytes |-> <<>>]

\* An over-bound request over several chunks has been ended with 413.
C4_Witness ==
    \E j \in DOMAIN req :
        /\ OverBound(j)
        /\ Len(req[j].stream.chunks) > 1
        /\ req[j].pc = "done"
        /\ req[j].res.statusCode = STATUS_TOO_LARGE

\* C5: a request the middleware takes, with a body-carrying method and a
\* stream that ends without error within MAX_BODY_SIZE, reaches the handler
\* exactly once, with the chunks' bytes in arrival order, unchanged.
WithinBound(j) ==
    /\ InScope(req[j].url)
    /\ CarriesBody(req[j].method)
    /\ ~req[j].stream.err
    /\ StreamTotal(req[j].stream.chunks) <= cfg.MAX_BODY_SIZE

C5_BodyByteForByte ==
    \A j \in DOMAIN req :
        WithinBound(j) =>
            /\ req[j].calls <= 1
            /\ req[j].pc \in {"collecting", "handling", "reading", "done"}
            /\ req[j].pc # "collecting" =>
                  /\ req[j].calls = 1
                  /\ req[j].request.body =
                        ChunksInOrder(req[j].stream.chunks, Len(req[j].stream.chunks))

\* The handler has been called with a body holding the bytes 0xD3 0xEB.
C5_Witness ==
    \E j \in DOMAIN req :
        /\ WithinBound(j)
        /\ Reached(j)
        /\ \E k \in DOMAIN req[j].stream.chunks : req[j].stream.chunks[k] = ChunkBin
        /\ \E n \in DOMAIN req[j].request.body : req[j].request.body[n] = <<211, 1>>

\* C6: the walk judges the change affected iff the entry module's node is
\* reachable from a node of the changed file along importer edges.
RECURSIVE ImporterClosure(_, _)
ImporterClosure(g, S) ==
    LET T == S \cup UNION {SetOf(g.importers[n]) : n \in S}
    IN IF T = S THEN S ELSE ImporterClosure(g, T)

Reachable(g, file) ==
    EntryNode \in ImporterClosure(g, SetOf(getModulesByFile(g, file)))

C6_AffectedIffReachable ==
    (wk.done /\ graph.hasEntry) =>
        (wk.out.isDependency <=> Reachable(graph, wk.file))

\* C7: the exit of a process that is not the tracked one leaves the
\* supervisor's record of the tracked process unchanged.
C7_StaleExitIgnored ==
    [][ \A p \in DOMAIN procs :
          (procs[p].state = "running" /\ procs'[p].state = "exited"
              /\ backendProcess # p)
            => backendProcess' = backendProcess ]_vars

\* C8: every spawned process that has not exited is the tracked one or has
\* been sent a termination signal.
C8_NoOrphan ==
    \A p \in DOMAIN procs :
        procs[p].state = "running" => (p = backendProcess \/ procs[p].signaled)

\* C9: a step spawns at most one process, startBackend is never left in
\* progress (restarting is false between steps), and a step that spawns
\* while a process is tracked has sent that process a termination signal.
C9_RestartsSerialized ==
    [][ /\ Len(procs') <= Len(procs) + 1
        /\ ~restarting /\ ~restarting'
        /\ (Len(procs') > Len(procs) /\ backendProcess # NoProc) =>
              /\ procs'[backendProcess].signaled
              /\ backendProcess' = Len(procs')
      ]_vars

\* A restart: the first process, still running, has been signaled and the
\* second is the tracked one.
C9_Witness ==
    /\ Len(procs) >= 2
    /\ procs[1].state = "running" /\ procs[1].signaled
    /\ backendProcess = 2

\* C10: the middleware takes exactly the requests whose path starts with the
\* configured apiPrefix ("/api" when none is configured).
C10_ScopeIsApiPrefix ==
    \A j \in DOMAIN req :
        (req[j].pc # "passed") <=>
            (req[j].url.given /\ StartsWith(req[j].url.v, cfg.apiPrefix))

\* The outbound response of a request the middleware has not touched.
Untouched(r) == r.res = NewReq(r.url, r.method, r.stream).res

\* C11: a request out of scope is handed to next() exactly once and nothing
\* else is done with it: its body stream is not read, the handler is not
\* invoked, and no status, header or body is written to its response.
C11_OutOfScopePassedThrough ==
    \A j \in DOMAIN req :
        ~InScope(req[j].url) =>
            /\ req[j].pc = "passed"
            /\ req[j].nextCalls = 1
            /\ req[j].read = 0 /\ req[j].totalSize = 0 /\ req[j].chunks = <<>>
            /\ req[j].calls = 0 /\ req[j].handler = NoHandler
            /\ Untouched(req[j]) /\ ~req[j].res.ended
            /\ ~req[j].logged

\* A POST with a body outside the scope has been passed on.
C11_Witness ==
    \E j \in DOMAIN req :
        /\ req[j].url = Given(V1_URL)
        /\ req[j].method = "POST"
        /\ req[j].stream.chunks # <<>>
        /\ req[j].nextCalls = 1

\* The requests the handler has answered.
Answered(j) == req[j].response # NoResponse

\* C12: the body written to the client, once the handler's response has
\* been read, is byte for byte the body of that response, also when that
\* body is not valid UTF-8 text.
C12_ResponseBodyByteForByte ==
    \A j \in DOMAIN req :
        (Answered(j) /\ req[j].pc = "done" /\ ~req[j].logged) =>
            req[j].res.body.bytes = req[j].response.body

\* C13: once the handler has answered, the outbound response carries the
\* handler's status and every header the handler's response holds, with its
\* value, and a finished exchange has been finalized.
C13_StatusAndHeadersCarried ==
    \A j \in DOMAIN req :
        Answered(j) =>
            /\ req[j].res.statusCode = req[j].response.status
            /\ \A k \in DOMAIN req[j].response.headers :
                   req[j].response.headers[k] \in req[j].res.headers
            /\ req[j].pc = "done" => req[j].res.ended

\* The step on which request j fails: its stream ends with an error, or the
\* handler call made for it does not resolve.
FailsNow(j) ==
    /\ j \in DOMAIN req
    /\ req'[j] # req[j]
    /\ \/ /\ req[j].pc = "collecting"
          /\ req[j].read = Len(req[j].stream.chunks)
          /\ req[j].stream.err
       \/ /\ req[j].pc = "handling"
          /\ req'[j].pc # "reading"

Failed500(r) ==
    /\ r.pc = "done"
    /\ r.res.ended
    /\ r.res.statusCode = STATUS_SERVER_ERROR
    /\ r.res.body.text = "Internal Server Error"
    /\ r.logged

\* C14: a request whose body stream errors or whose handler call rejects is
\* finalized with 500 "Internal Server Error" and the error is logged; the
\* middleware stays installed with its handler reference as it was, and a
\* request answered after a failed one carries its handler's status.
C14_ErrorsAre500 ==
    [][ /\ \A j \in DOMAIN req :
             FailsNow(j) => /\ Failed500(req'[j])
                            /\ api' = api
                            /\ phase' = phase
        /\ \A j \in DOMAIN req :
             (req[j].pc = "handling" /\ req'[j].pc = "reading"
                /\ \E i \in 1 .. j - 1 : Failed500(req[i]))
             => /\ req[j].handler = api
                /\ req'[j].response = HandlerResponse(api, req[j].request)
                /\ req'[j].res.statusCode = STATUS_DEFAULT + api.ver ]_vars

\* After a request that failed on its stream, a later request has been
\* answered by the handler.
C14_Witness ==
    /\ Len(req) = SerialLimit
    /\ Failed500(req[1])
    /\ req[1].calls = 0
    /\ req[SerialLimit].pc = "done"
    /\ req[SerialLimit].res.statusCode = STATUS_DEFAULT + api.ver

\* C15: after the initial load has failed the middleware is there to
\* answer (a request can arrive at it, to be failed with an error response)
\* and the change handler is there for a later load to succeed.
C15_FailedStartStillAnswers ==
    (phase = "failed" /\ ~cfg.ws) =>
        /\ MiddlewareInstalled
        /\ ENABLED Arrive(MaxRequests, MainUrls, MainMethods, MainStreams)
        /\ WatcherInstalled
        /\ ENABLED (\E c \in MainChanges : Change(c[1], c[2]))

\* The step restarts the backend: the process tracked before it has been
\* sent the termination signal and a new process is spawned and tracked.
RestartsNow ==
    /\ Len(procs') = Len(procs) + 1
    /\ backendProcess' = Len(procs')
    /\ procs'[backendProcess'].state = "running"
    /\ backendProcess # NoProc => procs'[backendProcess].signaled

\* C16: in ws mode the handling of a change judged affected ends, whether
\* its reload resolved or rejected, with a restart of the backend.
C16_AffectedChangeRestarts ==
    [][ \A i \in DOMAIN chg :
          (cfg.ws /\ chg[i].affected /\ chg[i].pc = "loading" /\ chg'[i].pc = "done")
          => RestartsNow ]_vars

\* C17: the handler a request is served by is the one that was the active
\* reference when the middleware took the request, whatever reload completed
\* while its body was collected.
C17_ServedByDispatchTimeHandler ==
    \A j \in DOMAIN req :
        req[j].calls > 0 => req[j].handler = req[j].dispatched

\* C18: a change of a file that has no node, or from whose nodes the entry
\* module is not reachable, causes no reload: on the steps its handler
\* takes (the event, and the walk once the entry lookup has resolved) the
\* loader is not called, the entry module is not invalidated, the active
\* reference and the backend process are as they were, and nothing is done
\* for that change once the walk has ended.
C18_UnaffectedChangeDoesNothing ==
    [][ \A i \in DOMAIN chg' :
          ~Reachable(graph, chg'[i].file) =>
              IF i \in DOMAIN chg /\ chg[i].pc = "done"
              THEN chg'[i] = chg[i]
              ELSE /\ chg'[i].pc \in {"looking", "done"}
                   /\ ~chg'[i].affected /\ ~chg'[i].invalidated
                   /\ chg'[i].settled = "none" /\ ~chg'[i].restarted
                   /\ (i \notin DOMAIN chg \/ chg'[i] # chg[i]) =>
                          /\ loads' = loads
                          /\ api' = api
                          /\ procs' = procs
                          /\ backendProcess' = backendProcess ]_vars

\* In ws mode, with the backend running, a file without a node and a file
\* of a node nothing imports have both changed and their walks have ended.
C18_Witness ==
    /\ cfg.ws
    /\ backendProcess # NoProc
    /\ \E i, k \in DOMAIN chg :
          /\ chg[i].pc = "done" /\ chg[k].pc = "done"
          /\ chg[i].file = "unloaded.ts" /\ getModulesByFile(graph, "unloaded.ts") = <<>>
          /\ chg[k].file = "util.ts" /\ getModulesByFile(graph, "util.ts") # <<>>

\* The graph with every importer edge removed.
WithoutEdges(g) == [g EXCEPT !.importers = [n \in Nodes |-> <<>>]]

\* C19: a change of the entry module's own file is judged affected and the
\* handler goes on to invalidate and load, on every graph, and the judgement
\* is the same with every importer edge removed.
C19_EntryFileChangeReloads ==
    (wk.done /\ graph.hasEntry /\ wk.file = ENTRY_FILE) =>
        /\ wk.out.isDependency
        /\ wk.started
        /\ isDependency(WithoutEdges(graph), wk.file).isDependency

\* The entry file has changed in a graph where another node has the same
\* file and the entry module has an importer.
C19_Witness ==
    /\ wk.done /\ graph.hasEntry /\ wk.file = ENTRY_FILE
    /\ \E n \in Nodes \ {EntryNode} : n \in SetOf(getModulesByFile(graph, ENTRY_FILE))
    /\ graph.importers[EntryNode] # <<>>

\* C20: the walk ends on every graph, and no node is expanded twice: the
\* expanded nodes are distinct nodes with an id, each id marked seen.
C20_ExpandedAtMostOnce ==
    wk.done =>
        /\ Len(wk.out.expanded) <= MaxNodes
        /\ \A a, b \in DOMAIN wk.out.expanded :
               a # b => wk.out.expanded[a] # wk.out.expanded[b]
        /\ \A a \in DOMAIN wk.out.expanded :
               /\ graph.id[wk.out.expanded[a]] # NoId
               /\ graph.id[wk.out.expanded[a]] \in wk.out.seen

\* A walk has ended after expanding two nodes that import each other, one
\* of which also imports itself.
C20_Witness ==
    /\ wk.done
    /\ \E a, b \in DOMAIN wk.out.expanded :
          LET n == wk.out.expanded[a]
              m == wk.out.expanded[b]
          IN /\ n # m
             /\ n \in SetOf(graph.importers[m]) /\ m \in SetOf(graph.importers[n])
             /\ n \in SetOf(graph.importers[n])

\* The reload of change i resolves on this step.
ResolvesNow(i) ==
    i \in DOMAIN chg /\ chg[i].settled = "none" /\ chg'[i].settled = "resolved"

\* C21: a reload that resolves makes the handler it loaded the active
\* reference; the reference then stays until another load resolves, and a
\* request that arrives or is handed to a handler meanwhile finds and gets
\* that handler.
C21_ServedByLatestLoaded ==
    [][ /\ \A i \in DOMAIN chg :
             ResolvesNow(i) => api' = Handler(chg[i].loadId, chg[i].loadVer)
        /\ api' # api =>
             (phase = "loading" \/ \E i \in DOMAIN chg : ResolvesNow(i))
        /\ \A j \in DOMAIN req' :
             /\ j \notin DOMAIN req => req'[j].dispatched = api
             /\ req'[j].calls > CallsOf(req, j) =>
                   (req'[j].handler = api /\ api' = api)
      ]_vars

\* A request that arrived after a reload had resolved has been answered by
\* the handler that reload loaded, of another version than the first.
C21_Witness ==
    \E i \in DOMAIN chg, j \in DOMAIN req :
        /\ chg[i].settled = "resolved"
        /\ req[j].dispatched = Handler(chg[i].loadId, chg[i].loadVer)
        /\ req[j].dispatched.ver > 1
        /\ req[j].handler = req[j].dispatched
        /\ req[j].pc = "done"
        /\ req[j].res.statusCode = STATUS_DEFAULT + chg[i].loadVer

\* The index of the first chunk with which the running total is over the
\* bound; 0 if there is none.
FirstOver(chunks, max) ==
    LET over == {k \in DOMAIN chunks : StreamTotal(SubSeq(chunks, 1, k)) > max}
    IN IF over = {} THEN 0 ELSE CHOOSE k \in over : \A m \in over : k <= m

\* C22: a request ended with 413 has consumed the chunks up to the first one
\* that put the running total over the bound, and no chunk after it; the
\* chunks it kept are those before that one.
C22_StopsAtFirstOver ==
    \A j \in DOMAIN req :
        LET first == FirstOver(req[j].stream.chunks, cfg.MAX_BODY_SIZE)
        IN /\ req[j].res.statusCode = STATUS_TOO_LARGE =>
                /\ first > 0
                /\ req[j].read = first
                /\ req[j].chunks = SubSeq(req[j].stream.chunks, 1, first - 1)
           /\ (first > 0 /\ CarriesBody(req[j].method)) => req[j].read <= first

\* A request has been ended with 413 on its first chunk while its stream
\* held another.
C22_Witness ==
    \E j \in DOMAIN req :
        /\ req[j].res.statusCode = STATUS_TOO_LARGE
        /\ req[j].pc = "done"
        /\ req[j].read = 1
        /\ Len(req[j].stream.chunks) > 1

\* C23: the bound is inclusive. A stream that ends without error with
\* exactly MAX_BODY_SIZE bytes is never answered 413 and reaches the handler
\* with all its bytes; one with MAX_BODY_SIZE + 1 bytes never reaches the
\* handler and is ended with 413, however the bytes are split into chunks.
C23_BoundInclusive ==
    \A j \in DOMAIN req :
        (InScope(req[j].url) /\ CarriesBody(req[j].method)) =>
            LET total == StreamTotal(req[j].stream.chunks)
            IN /\ (total = cfg.MAX_BODY_SIZE /\ ~req[j].stream.err) =>
                    /\ req[j].res.statusCode # STATUS_TOO_LARGE
                    /\ req[j].pc # "collecting" =>
                          /\ req[j].calls = 1
                          /\ req[j].request.body =
                                ChunksInOrder(req[j].stream.chunks,
                                              Len(req[j].stream.chunks))
               /\ total = cfg.MAX_BODY_SIZE + 1 =>
                    /\ req[j].calls = 0
                    /\ req[j].pc = "done" => req[j].res.statusCode = STATUS_TOO_LARGE

\* With the bound 2: two chunks of one byte each have reached the handler.
C23_Witness ==
    \E j \in DOMAIN req :
        /\ cfg.MAX_BODY_SIZE = 2
        /\ req[j].stream.chunks = <<Chunk1, Chunk1>>
        /\ req[j].calls = 1
        /\ req[j].request.body = Chunk1 \o Chunk1

\* The bound the options ask for: the configured number, 1,048,576 if none.
AskedBound == IF opts.MAX_BODY_SIZE.given THEN opts.MAX_BODY_SIZE.v ELSE 1048576

\* C24: the bound in force is the configured number, 0 included, and
\* 1,048,576 when none is configured: a request whose body has been read is
\* answered 413 exactly if its bytes are more than that number.
C24_BoundAsConfigured ==
    /\ cfg.MAX_BODY_SIZE = AskedBound
    /\ \A j \in DOMAIN req :
          (InScope(req[j].url) /\ CarriesBody(req[j].method)
             /\ req[j].pc # "collecting") =>
              (req[j].res.statusCode = STATUS_TOO_LARGE
                 <=> StreamTotal(req[j].stream.chunks) > AskedBound)

\* With the bound configured as 0, an empty body has reached the handler.
C24_Witness ==
    \E j \in DOMAIN req :
        /\ opts.MAX_BODY_SIZE = Given(0)
        /\ CarriesBody(req[j].method)
        /\ req[j].stream.chunks = <<>>
        /\ req[j].calls = 1
        /\ req[j].request.body = <<>>

\* C25: a GET or HEAD request the middleware takes is handed to the handler
\* with an empty body without its stream being read, and is never answered
\* 413, whatever its stream holds.
C25_GetHeadNotRead ==
    \A j \in DOMAIN req :
        (InScope(req[j].url) /\ req[j].method \in {"GET", "HEAD"}) =>
            /\ req[j].read = 0 /\ req[j].totalSize = 0 /\ req[j].chunks = <<>>
            /\ req[j].pc # "collecting"
            /\ req[j].calls = 1
            /\ req[j].request.body = <<>>
            /\ req[j].res.statusCode # STATUS_TOO_LARGE

\* A HEAD request whose stream holds more than the bound, and would end in
\* an error, has been answered by the handler.
C25_Witness ==
    \E j \in DOMAIN req :
        /\ req[j].method = "HEAD"
        /\ StreamTotal(req[j].stream.chunks) > cfg.MAX_BODY_SIZE
        /\ req[j].stream.err
        /\ req[j].pc = "done"
        /\ req[j].response # NoResponse

\* The supervisor's state as the code records it: Running while
\* backendProcess holds a process, Stopped while it is null. The code has no
\* record of Starting or Stopping: startBackend and the close handler have no
\* await, so the signal, the clearing of the reference, the spawn and its
\* tracking happen within one step, and what a step passed through is read
\* off what it did to the processes.
SupervisorState == IF backendProcess = NoProc THEN "Stopped" ELSE "Running"

\* What a step does to the process tracked before it, and whether it
\* spawns and tracks a new one.
SignalsTracked ==
    /\ backendProcess # NoProc
    /\ ~procs[backendProcess].signaled
    /\ procs'[backendProcess].signaled
TrackedExits ==
    /\ backendProcess # NoProc
    /\ procs[backendProcess].state = "running"
    /\ procs'[backendProcess].state = "exited"
SpawnsTracked ==
    /\ Len(procs') = Len(procs) + 1
    /\ backendProcess' = Len(procs')

\* C26: the supervisor leaves Stopped only by spawning (Starting, Running),
\* leaves Running for Stopped only by signaling its process (Stopping,
\* Stopped) or on the exit of its process, and comes to track another
\* process only through the whole cycle; a process is spawned only to be
\* tracked.
C26_SupervisorTransitions ==
    [][ /\ (SupervisorState = "Stopped" /\ SupervisorState' = "Running")
              => SpawnsTracked
        /\ (SupervisorState = "Running" /\ SupervisorState' = "Stopped")
              => (SignalsTracked \/ TrackedExits)
        /\ (SupervisorState = "Running" /\ SupervisorState' = "Running"
               /\ backendProcess' # backendProcess)
              => (SignalsTracked /\ SpawnsTracked)
        /\ Len(procs') # Len(procs) => SpawnsTracked
      ]_vars

\* C27: when the tracked process exits with a non-zero code the exit is
\* logged as an error, no process is tracked any more, and the host and the
\* active handler are as they were; a process is spawned only at startup or
\* when the reload of an affected change resolves.
C27_NonZeroExitStops ==
    [][ /\ (TrackedExits /\ procs'[backendProcess].exitCode \notin {"null", "0"})
              => /\ procs'[backendProcess].exitLogged
                 /\ backendProcess' = NoProc
                 /\ Len(procs') = Len(procs)
                 /\ phase' = phase /\ closed' = closed /\ api' = api
        /\ Len(procs') > Len(procs)
              => \/ phase = "loading"
                 \/ \E i \in DOMAIN chg : ResolvesNow(i) /\ chg[i].affected
      ]_vars

\* The first process exited with code 1 while tracked, and the reload of a
\* later change has spawned the second.
C27_Witness ==
    /\ Len(procs) = 2
    /\ procs[1].state = "exited" /\ procs[1].exitCode = "1"
    /\ procs[1].exitLogged /\ ~procs[1].signaled
    /\ backendProcess = 2
    /\ phase = "ready"

\* C28: after the host has closed no backend process is running without
\* having been sent the termination signal, be it the one tracked at the
\* close or one spawned later.
C28_CloseIsTerminal ==
    closed => \A p \in DOMAIN procs :
                  procs[p].state = "running" => procs[p].signaled

\* C29: the loader has been invoked once at startup and once for each
\* change judged affected, and never otherwise.
C29_OneLoadPerAffectedChange ==
    /\ loads = 1 + Cardinality({i \in DOMAIN chg : chg[i].affected})
    /\ \A i \in DOMAIN chg :
          IF chg[i].affected
          THEN chg[i].loadId \in 2 .. loads
          ELSE chg[i].loadId = 0
    /\ \A i, k \in DOMAIN chg :
          (i # k /\ chg[i].affected /\ chg[k].affected) => chg[i].loadId # chg[k].loadId

\* All changes have been taken and processed, one at least affected and one
\* not, and the loader's invocations are one more than the affected changes.
C29_Witness ==
    /\ Len(chg) = MaxChanges
    /\ \A i \in DOMAIN chg : chg[i].pc = "done"
    /\ \E i, k \in DOMAIN chg : chg[i].affected /\ ~chg[k].affected
    /\ loads = 1 + Cardinality({i \in DOMAIN chg : chg[i].affected})

\* C30: outside ws mode no backend process is ever spawned, signaled or
\* tracked; in ws mode the middleware is not installed and no request is
\* handled in-process.
C30_PathsExclusive ==
    /\ ~cfg.ws => (procs = <<>> /\ backendProcess = NoProc)
    /\ cfg.ws => (~MiddlewareInstalled /\ req = <<>>)

\* In ws mode, after a restart of the backend, no request has been taken.
C30_Witness ==
    /\ cfg.ws
    /\ Len(procs) >= 2
    /\ \E i \in DOMAIN chg : chg[i].restarted
    /\ req = <<>>

\* C31: a request that has reached the handler is finalized only once the
\* handler call has settled: not while the call is pending, not while the
\* response's body is being read; when it is finalized, either the call
\* resolved and the body written is the one read from its answer, or the
\* call or the reading of the answer's body failed and the failure is
\* answered with 500.
C31_FinalizedAfterHandler ==
    \A j \in DOMAIN req :
        req[j].calls > 0 =>
            /\ req[j].res.ended <=> req[j].pc = "done"
            /\ req[j].pc = "handling" => ~Answered(j)
            /\ req[j].pc = "done" =>
                  IF Answered(j) /\ ~req[j].logged
                  THEN req[j].res.body.bytes = Utf8RoundTrip(req[j].response.body)
                  ELSE Failed500(req[j]) /\ req[j].logged

\* The handler has answered a request with a body and the response has not
\* been finalized yet: the answer's body is being read.
C31_Witness ==
    \E j \in DOMAIN req :
        /\ req[j].pc = "reading"
        /\ Answered(j)
        /\ req[j].response.body # <<>>
        /\ ~req[j].res.ended

\* The handler call made for the first request is pending.
Hung == 1 \in DOMAIN req /\ req[1].pc = "handling"

\* C32: while one request's handler call is pending, everything else can
\* go on: a further request can be taken, every other request can take its
\* next step (read a chunk, get its answer, be finalized), a change can be
\* taken and every reload in progress can resolve.
C32_HungBlocksOnlyItself ==
    Hung =>
        /\ Len(req) < HungLimit =>
              ENABLED Arrive(HungLimit, MainUrls, MainMethods, MainStreams)
        /\ \A k \in DOMAIN req \ {1} :
              /\ req[k].pc = "collecting" => ENABLED ReadNext(k)
              /\ req[k].pc = "handling" => ENABLED (\E response \in Answers(k) : HandleResolve(k, response))
              /\ req[k].pc = "reading" => ENABLED TextResolve(k)
        /\ Len(chg) < MaxChanges =>
              ENABLED (\E c \in HungChanges : Change(c[1], c[2]))
        /\ \A i \in DOMAIN chg :
              chg[i].pc = "loading" => ENABLED LoadResolve(i)

\* While the first request's call is pending, a reload has swapped the
\* handler and a later request with a body has been collected, answered by
\* the new handler and finalized.
C32_Witness ==
    /\ Hung
    /\ req[1].handler.obj = 1
    /\ api.obj > 1
    /\ \E k \in DOMAIN req \ {1} :
          /\ req[k].method = "POST"
          /\ req[k].pc = "done"
          /\ req[k].res.ended
          /\ req[k].handler = api

\* C33: a reload that loads the sources the active handler was loaded from
\* yields a handler that answers as the active one does and leaves every
\* request in flight as it is; and a request handed to a handler of the
\* version that was active when it arrived gets the answer the handler
\* active on its arrival would have given. Stated for a module that keeps
\* state in memory (CountingResponse).
C33_UnchangedReloadIsEquivalent ==
    [][ /\ \A i \in DOMAIN chg :
             (ResolvesNow(i) /\ chg[i].loadVer = api.ver) =>
                 /\ CountingResponse(api', req') = CountingResponse(api, req)
                 /\ req' = req
        /\ \A j \in DOMAIN req :
             (req[j].pc = "handling" /\ req'[j].pc = "reading"
                /\ req[j].handler.ver = req[j].dispatched.ver) =>
                 req'[j].response = CountingResponse(req[j].dispatched, req)
      ]_vars

\* ----------------------------------------------------------- C34, C35: build
StepsOf(b) == {b.steps[k] : k \in DOMAIN b.steps}

StepRank(s) ==
    CASE s = "check"  -> 1
      [] s = "vite"   -> 2
      [] s = "temp"   -> 3
      [] s = "bundle" -> 4
      [] s = "compile" -> 5

EndedNonZero(b) ==
    /\ b.pc = "ended"
    /\ b.outcome # "returned"
    /\ b.exits # <<>>
    /\ \A k \in DOMAIN b.exits : b.exits[k] # 0

\* C34: once .output/.temp-prod.ts has been written, a run of build() that
\* has ended (bundling succeeded, reported failure or threw; build() has
\* returned to buildCompile or the process is over) has removed the temp
\* file and the .output directory; no ended run leaves the temp file.
C34_TempRemovedWhenBuildEnds ==
    bld.pc \in {"ended", "compile"} =>
        /\ ~bld.tempFile
        /\ "temp" \in StepsOf(bld) => ~bld.outputDir

\* C35: the steps of build() run in the order entry check, vite build, temp
\* entry, bundling (buildCompile compiles after them); a step that fails is the run's last step and the run ends
\* there with a non-zero exit code: after a missing entry file no vite build
\* runs, after a failed vite build no temp file is written and no bundling
\* is attempted.
C35_StepsInOrderFailureStops ==
    /\ \A j, k \in DOMAIN bld.steps :
           j < k => StepRank(bld.steps[j]) < StepRank(bld.steps[k])
    /\ ("check" \in StepsOf(bld) /\ ~bld.skipServer /\ ~bld.entryExists) =>
           /\ bld.steps = <<"check">>
           /\ EndedNonZero(bld)
    /\ ("vite" \in StepsOf(bld) /\ bld.viteStatus # Given(0)) =>
           /\ bld.steps[Len(bld.steps)] = "vite"
           /\ ~bld.tempFile
           /\ EndedNonZero(bld)
    /\ (bld.pc = "ended" /\ "bundle" \in StepsOf(bld)
          /\ bld.bundle # "success") =>
           /\ bld.steps[Len(bld.steps)] = "bundle"
           /\ EndedNonZero(bld)

\* A run with an existing entry file whose vite build ended with status 2:
\* the run is over with exit code 2 after the steps check and vite.
C35_Witness ==
    /\ bld.pc = "ended"
    /\ bld.steps = <<"check", "vite">>
    /\ bld.viteStatus = Given(2)
    /\ bld.exits = <<2>>
    /\ ~bld.skipServer

\* ----------------------------------------------------- C36: startServer
\* The prefix the caller asked for: the option, "/api" when it is left out.
AskedPrefix(s) == IF s.apiPrefix.given THEN s.apiPrefix.v ELSE API_LITERAL

\* C36: an answered request whose path starts with apiPrefix (default "/api")
\* is answered by the api (by its route where it has one for the request,
\* with its 404 where it has none) and never by a static file or the SPA
\* fallback; any other request gets the static file its path names under
\* dist ("/" being index.html) if it exists, otherwise index.html when the
\* method is GET, otherwise a 404.
C36_ApiBeforeStaticBeforeFallback ==
    \A i \in DOMAIN srv.reqs :
      LET r == srv.reqs[i] IN
      r.pc = "done" =>
        IF StartsWith(r.target, AskedPrefix(srv))
        THEN /\ r.res.by \notin {"static", "fallback"}
             /\ r.res.status =
                    (IF <<r.method, r.target>> \in srv.routes
                     THEN STATUS_DEFAULT ELSE STATUS_NOT_FOUND)
             /\ <<r.method, r.target>> \in srv.routes => r.res.by = "api"
        ELSE IF \E f \in srv.files : DIST \o f = FilePath(r.target)
             THEN /\ r.res.by = "static"
                  /\ r.res.status = STATUS_DEFAULT
                  /\ DIST \o r.res.file = FilePath(r.target)
             ELSE IF r.method = "GET"
             THEN r.res = [by |-> "fallback", status |-> STATUS_DEFAULT,
                           file |-> INDEX_HTML]
             ELSE /\ r.res.status = STATUS_NOT_FOUND
                  /\ r.res.by \notin {"static", "fallback"}

====
